---- MODULE Spec2Model ----
(***************************************************************************)
(* Client query ticketing: the CSV importer (import_csv.py) and the three  *)
(* storage operations of the web application (streamlit_app.py) against    *)
(* the client_queries table.                                               *)
(*                                                                         *)
(* A text is a sequence of tokens; the token " " is one whitespace         *)
(* character and every other token is a run of non-blank characters.       *)
(* A Python value is a tagged record: None, NaN (pandas' missing cell),    *)
(* a str, or a datetime.                                                   *)
(***************************************************************************)
EXTENDS Integers, Sequences, FiniteSets, TLC

VARIABLES db, tx, pc, columns, inserted, last

vars == <<db, tx, pc, columns, inserted, last>>

(***************************************************************************)
(* Bounds of the model.                                                    *)
(***************************************************************************)
MaxRows == 2
MaxTime == 1
MaxPad == 1

(***************************************************************************)
(* Python values.                                                          *)
(***************************************************************************)
None == [t |-> "None", v |-> <<>>]
NaN == [t |-> "NaN", v |-> <<>>]
Absent == [t |-> "absent", v |-> <<>>]
Str(s) == [t |-> "str", v |-> s]
Dt(n) == [t |-> "dt", v |-> <<n>>]

SP == " "

RECURSIVE lstrip(_)
lstrip(s) == IF s # <<>> /\ Head(s) = SP THEN lstrip(Tail(s)) ELSE s

RECURSIVE rstrip(_)
rstrip(s) == IF s # <<>> /\ s[Len(s)] = SP
             THEN rstrip(SubSeq(s, 1, Len(s) - 1))
             ELSE s

\* str.strip()
strip(s) == rstrip(lstrip(s))

\* str.lower(), token by token
lower_token(c) ==
    CASE c \in {"Open", "OPEN"} -> "open"
      [] c \in {"Closed", "CLOSED"} -> "closed"
      [] c \in {"In", "IN"} -> "in"
      [] c \in {"Progress", "PROGRESS"} -> "progress"
      [] c \in {"Resolved", "RESOLVED"} -> "resolved"
      [] c = "WEIRD" -> "weird"
      [] OTHER -> c

lower(s) == [i \in 1..Len(s) |-> lower_token(s[i])]

\* pd.isna(v)
isna(v) == v.t \in {"NaN", "None"}

\* str(v) of a cell
str(v) ==
    CASE v.t = "str" -> v.v
      [] v.t = "NaN" -> <<"nan">>
      [] v.t = "None" -> <<"None">>

\* s[:n]
Prefix(s, n) == SubSeq(s, 1, IF Len(s) < n THEN Len(s) ELSE n)

\* pandas.read_csv(dtype=str) on one cell: an empty cell is a missing value
read_cell(text) == IF text = <<>> THEN NaN ELSE Str(text)

\* row.get(col, default)
get(row, col, default) == IF row[col] = Absent THEN default ELSE row[col]

(***************************************************************************)
(* import_csv.py: constants.                                               *)
(***************************************************************************)
Open == <<"Open">>
Closed == <<"Closed">>
InProgress == <<"In", SP, "Progress">>
Resolved == <<"Resolved">>

ALLOWED_STATUSES == {Open, Closed, InProgress, Resolved}

HEADER_KEYS ==
    {"query_id", "mail_id", "client_email", "mobile_number", "client_mobile",
     "query_heading", "query_description", "status", "query_created_time",
     "date_raised", "query_closed_time", "date_closed"}

HEADER_MAP ==
    [k \in HEADER_KEYS |->
        CASE k = "client_email" -> "mail_id"
          [] k = "client_mobile" -> "mobile_number"
          [] k = "date_raised" -> "query_created_time"
          [] k = "date_closed" -> "query_closed_time"
          [] OTHER -> k]

REQUIRED_TARGET_COLS ==
    {"mail_id", "query_heading", "query_description", "status", "query_created_time"}

TargetCols ==
    {"query_id", "mail_id", "mobile_number", "query_heading", "query_description",
     "status", "query_created_time", "query_closed_time"}

QidLen == 64

(***************************************************************************)
(* import_csv.py: field coercion.                                          *)
(***************************************************************************)
Fail == [t |-> "fail", v |-> <<>>]

fmts == <<"%Y-%m-%d %H:%M:%S", "%Y-%m-%d", "%d-%m-%Y %H:%M:%S", "%d-%m-%Y">>

\* datetime.strptime(s, f) on the date texts of the model; 1 March 2024 is day 1
strptime(s, f) ==
    CASE f = "%Y-%m-%d %H:%M:%S" /\ s = <<"2024-03-01", SP, "10:00:00">> -> Dt(1)
      [] f = "%Y-%m-%d" /\ s = <<"2024-03-01">> -> Dt(1)
      [] f = "%d-%m-%Y %H:%M:%S" /\ s = <<"01-03-2024", SP, "10:00:00">> -> Dt(1)
      [] f = "%d-%m-%Y" /\ s = <<"01-03-2024">> -> Dt(1)
      [] OTHER -> Fail

\* pd.to_datetime(s), the general-purpose parser
to_datetime(s) == IF s = <<"2024/03/01">> THEN Dt(1) ELSE Fail

parse_datetime_safe(v) ==
    IF isna(v) \/ strip(str(v)) = <<>>
    THEN None
    ELSE LET s == strip(str(v))
             ok == {i \in 1..Len(fmts) : strptime(s, fmts[i]) # Fail}
         IN  IF ok # {}
             THEN strptime(s, fmts[CHOOSE i \in ok : \A j \in ok : i <= j])
             ELSE IF to_datetime(s) # Fail THEN to_datetime(s) ELSE None

\* normalize_status comparing without lower()
normalize_status_cased(s) ==
    IF isna(s)
    THEN Open
    ELSE LET s_val == strip(str(s))
             hit == {a \in ALLOWED_STATUSES : s_val = a}
         IN  IF hit # {} THEN CHOOSE a \in hit : TRUE ELSE Open

normalize_status(s) ==
    IF isna(s)
    THEN Open
    ELSE LET s_val == strip(str(s))
             hit == {a \in ALLOWED_STATUSES : lower(s_val) = lower(a)}
         IN  IF hit # {} THEN CHOOSE a \in hit : TRUE ELSE Open

\* the "x or None" of a plain text field
text_or_none(v) == IF strip(str(v)) # <<>> THEN Str(strip(str(v))) ELSE None

\* whether the row carries no usable query_id, so that a uuid is generated
qid_missing(row) ==
    LET qid_raw == get(row, "query_id", None)
    IN  isna(qid_raw) \/ strip(str(qid_raw)) = <<>>

\* the parameters of INSERT_SQL built from one row; uuid is uuid4().hex
row_params(row, uuid) ==
    [query_id |-> IF qid_missing(row)
                  THEN Str(Prefix(uuid, QidLen))
                  ELSE Str(Prefix(strip(str(get(row, "query_id", None))), QidLen)),
     mail_id |-> text_or_none(get(row, "mail_id", Str(<<>>))),
     mobile_number |-> text_or_none(get(row, "mobile_number", Str(<<>>))),
     query_heading |-> text_or_none(get(row, "query_heading", Str(<<>>))),
     query_description |-> text_or_none(get(row, "query_description", Str(<<>>))),
     status |-> normalize_status(get(row, "status", None)),
     query_created_time |-> parse_datetime_safe(get(row, "query_created_time", None)),
     query_closed_time |-> parse_datetime_safe(get(row, "query_closed_time", None))]

(***************************************************************************)
(* import_csv.py: header normalisation.                                    *)
(***************************************************************************)
in_header_map(key) == Len(key) = 1 /\ key[1] \in HEADER_KEYS

\* renaming that looks the untrimmed name up
renamed_untrimmed(cols) ==
    [i \in 1..Len(cols) |->
        IF in_header_map(cols[i]) THEN <<HEADER_MAP[cols[i][1]]>> ELSE cols[i]]

\* df.rename(columns=col_map): the column names after mapping
renamed(cols) ==
    [i \in 1..Len(cols) |->
        IF in_header_map(strip(cols[i]))
        THEN <<HEADER_MAP[strip(cols[i])[1]]>>
        ELSE cols[i]]

Range(f) == {f[i] : i \in DOMAIN f}

\* REQUIRED_TARGET_COLS - set(df.columns)
missing_required(cols) == {c \in REQUIRED_TARGET_COLS : <<c>> \notin Range(renamed(cols))}

\* the target columns the normalised frame holds
frame_columns(cols) == {c \in TargetCols : <<c>> \in Range(renamed(cols))}

(***************************************************************************)
(* The client_queries table: a set of rows.  query_id is the primary key   *)
(* and mail_id is declared NOT NULL.                                       *)
(***************************************************************************)
ids(table) == {r.query_id : r \in table}

rows_of(table, qid) == {r \in table : r.query_id = qid}

\* mail_id VARCHAR(255) NOT NULL: the statement is rejected
not_null_violation(p) == p.mail_id = None

\* a plain INSERT into a table that enforces no key
INSERT_SQL_plain(table, p) ==
    table \cup
    {[query_id |-> p.query_id,
      mail_id |-> p.mail_id,
      mobile_number |-> p.mobile_number,
      query_heading |-> p.query_heading,
      query_description |-> p.query_description,
      status |-> p.status,
      query_created_time |-> p.query_created_time,
      query_closed_time |-> p.query_closed_time,
      assigned_to |-> None]}

\* INSERT ... ON DUPLICATE KEY UPDATE of import_csv.py (no assigned_to)
INSERT_SQL(table, p) ==
    IF \E r \in table : r.query_id = p.query_id
    THEN {IF r.query_id = p.query_id
          THEN [r EXCEPT !.mail_id = p.mail_id,
                         !.mobile_number = p.mobile_number,
                         !.query_heading = p.query_heading,
                         !.query_description = p.query_description,
                         !.status = p.status,
                         !.query_created_time = p.query_created_time,
                         !.query_closed_time = p.query_closed_time]
          ELSE r : r \in table}
    ELSE table \cup
         {[query_id |-> p.query_id,
           mail_id |-> p.mail_id,
           mobile_number |-> p.mobile_number,
           query_heading |-> p.query_heading,
           query_description |-> p.query_description,
           status |-> p.status,
           query_created_time |-> p.query_created_time,
           query_closed_time |-> p.query_closed_time,
           assigned_to |-> None]}

\* INSERT ... ON DUPLICATE KEY UPDATE of submit_query (no query_closed_time)
SUBMIT_SQL(table, p) ==
    IF \E r \in table : r.query_id = p.query_id
    THEN {IF r.query_id = p.query_id
          THEN [r EXCEPT !.mail_id = p.mail_id,
                         !.mobile_number = p.mobile_number,
                         !.query_heading = p.query_heading,
                         !.query_description = p.query_description,
                         !.status = p.status,
                         !.query_created_time = p.query_created_time,
                         !.assigned_to = p.assigned_to]
          ELSE r : r \in table}
    ELSE table \cup
         {[query_id |-> p.query_id,
           mail_id |-> p.mail_id,
           mobile_number |-> p.mobile_number,
           query_heading |-> p.query_heading,
           query_description |-> p.query_description,
           status |-> p.status,
           query_created_time |-> p.query_created_time,
           query_closed_time |-> None,
           assigned_to |-> p.assigned_to]}

\* a closed time written whatever the new status
closed_time_always(new_status, now) == Dt(now)

\* the closed time update_query_status_and_assign writes for new_status
closed_time_for(new_status, now) ==
    IF new_status \in {Resolved, Closed} THEN Dt(now) ELSE None

\* an update that creates the row it does not find
UPDATE_SQL_upsert(table, qid, new_status, assigned_to, now) ==
    IF \E r \in table : r.query_id = qid
    THEN {IF r.query_id = qid
          THEN [r EXCEPT !.status = new_status,
                         !.assigned_to = assigned_to,
                         !.query_closed_time = closed_time_for(new_status, now)]
          ELSE r : r \in table}
    ELSE table \cup
         {[query_id |-> qid, mail_id |-> None, mobile_number |-> None,
           query_heading |-> None, query_description |-> None,
           status |-> new_status, query_created_time |-> None,
           query_closed_time |-> closed_time_for(new_status, now),
           assigned_to |-> assigned_to]}

\* UPDATE client_queries SET status, assigned_to, query_closed_time WHERE query_id
UPDATE_SQL(table, qid, new_status, assigned_to, now) ==
    {IF r.query_id = qid
     THEN [r EXCEPT !.status = new_status,
                    !.assigned_to = assigned_to,
                    !.query_closed_time = closed_time_for(new_status, now)]
     ELSE r : r \in table}

(***************************************************************************)
(* Connections.  mysql.connector opens a connection with autocommit off:   *)
(* what the importer executes stays in its transaction, tx, until commit;  *)
(* the rows it wrote are locked, so another connection's statement on one  *)
(* of them waits.  A connection dropped without commit is rolled back.     *)
(***************************************************************************)
\* a connection that commits every statement
autocommit_on == TRUE

autocommit == FALSE

\* the table as the importer's connection sees it
View(d, t) == {r \in d : r.query_id \notin ids(t)} \cup t

\* the importer's uncommitted rows after it executes INSERT_SQL with p
execute(d, t, p) ==
    {r \in INSERT_SQL(View(d, t), p) : r.query_id \in ids(t) \cup {p.query_id}}

commit(d, t) == View(d, t)

rollback(t) == {}

locked(qid) == qid \in ids(tx)

(***************************************************************************)
(* Inputs: header lines, CSV rows, form submissions.                       *)
(***************************************************************************)
Pads == 0..MaxPad

Times == 1..MaxTime

Pad(k) == [i \in 1..k |-> SP]

padded(k, s) == Pad(k) \o s \o Pad(k)

ColOrder ==
    <<"query_id", "mail_id", "mobile_number", "query_heading", "query_description",
      "status", "query_created_time", "query_closed_time">>

Synonym(c) ==
    CASE c = "mail_id" -> "client_email"
      [] c = "mobile_number" -> "client_mobile"
      [] c = "query_created_time" -> "date_raised"
      [] c = "query_closed_time" -> "date_closed"
      [] OTHER -> c

\* a header in another letter case: no key of HEADER_MAP
Upper(c) ==
    CASE c = "query_id" -> "QUERY_ID"
      [] c = "mail_id" -> "Mail_ID"
      [] c = "mobile_number" -> "MOBILE_NUMBER"
      [] c = "query_heading" -> "Query_Heading"
      [] c = "query_description" -> "QUERY_DESCRIPTION"
      [] c = "status" -> "Status"
      [] c = "query_created_time" -> "Date_Raised"
      [] c = "query_closed_time" -> "DATE_CLOSED"

Variants == {"absent", "canon", "syn", "upper"}

header_text(c, variant, k) ==
    CASE variant = "canon" -> <<c>>
      [] variant = "syn" -> padded(k, <<Synonym(c)>>)
      [] variant = "upper" -> padded(k, <<Upper(c)>>)

RECURSIVE header_line(_, _, _)
header_line(ch, k, i) ==
    IF i > Len(ColOrder)
    THEN <<>>
    ELSE IF ch[i] = "absent"
         THEN header_line(ch, k, i + 1)
         ELSE <<header_text(ColOrder[i], ch[i], k)>> \o header_line(ch, k, i + 1)

Reverse(s) == [i \in 1..Len(s) |-> s[Len(s) + 1 - i]]

Optional == {i \in 1..Len(ColOrder) : ColOrder[i] \notin REQUIRED_TARGET_COLS}

Required == {i \in 1..Len(ColOrder) : ColOrder[i] \in REQUIRED_TARGET_COLS}

HeaderChoices ==
    {[i \in 1..Len(ColOrder) |-> IF i \in Optional THEN o[i] ELSE r[i]] :
        o \in [Optional -> {"absent", "canon"}], r \in [Required -> Variants]}

\* header lines of every shape, in file order and reversed
AllHeaders(pads) ==
    {header_line(ch, k, 1) : ch \in HeaderChoices, k \in pads}
        \cup {Reverse(header_line(ch, k, 1)) : ch \in HeaderChoices, k \in pads}

MainHeaders ==
    {header_line([i \in 1..Len(ColOrder) |-> "canon"], 0, 1),
     header_line([i \in 1..Len(ColOrder) |-> "syn"], MaxPad, 1),
     header_line([i \in 1..Len(ColOrder) |-> IF i \in Optional THEN "absent" ELSE "canon"], 0, 1),
     header_line([i \in 1..Len(ColOrder) |-> IF ColOrder[i] = "status" THEN "upper" ELSE "canon"], 0, 1)}

TextShapes == {"empty", "blank", "word"}

text_cell(shape, k, w) ==
    CASE shape = "empty" -> <<>>
      [] shape = "blank" -> Pad(k + 1)
      [] shape = "word" -> padded(k, <<w>>)

StatusTexts ==
    {<<>>, Pad(MaxPad), padded(MaxPad, <<"open">>), <<"CLOSED">>,
     <<"in", SP, "PROGRESS">>, <<"Resolved">>, <<"WEIRD">>}

DateTexts == {<<>>, padded(MaxPad, <<"01-03-2024">>)}

\* one line of the file as read_csv delivers it for the frame's columns
csv_row(cols, shape, k, st, cr, cl, qd) ==
    LET text == [c \in TargetCols |->
                    CASE c = "query_id" -> qd
                      [] c = "mail_id" -> text_cell(shape, k, "a@x")
                      [] c = "mobile_number" -> text_cell(shape, k, "555")
                      [] c = "query_heading" -> text_cell(shape, k, "h")
                      [] c = "query_description" -> text_cell(shape, k, "d")
                      [] c = "status" -> st
                      [] c = "query_created_time" -> cr
                      [] c = "query_closed_time" -> cl]
    IN  [c \in TargetCols |-> IF c \in cols THEN read_cell(text[c]) ELSE Absent]

MainStatusTexts == {<<>>, <<"WEIRD">>, padded(MaxPad, <<"closed">>)}

\* lines that name the ticket q1, and one line without an identifier
MainRows(cols) ==
    {csv_row(cols, shape, MaxPad, st, <<"01-03-2024">>, cl, padded(MaxPad, <<"q1">>)) :
        shape \in TextShapes, st \in MainStatusTexts, cl \in DateTexts}
        \cup {csv_row(cols, "word", 0, <<"open">>, <<"2024-03-01">>, <<>>, <<>>)}

Uuids == {<<"u1">>}

\* uuid.uuid4().hex: an identifier no stored or pending row carries
fresh(u) == Str(Prefix(u, QidLen)) \notin ids(db) \cup ids(tx)

SupportUsers == {None, Str(<<"s1">>)}

StatusOptions == {Open, InProgress, Resolved, Closed}

SubmitArgs ==
    [mail : {Str(<<"a@x">>)}, mobile : {Str(<<"555">>)}, heading : {Str(<<"h">>)},
     desc : {Str(<<"d">>)}, query_id : {None, Str(<<"q1">>)}, assigned_to : SupportUsers]

UpdateQids == {Str(<<"q1">>)}

(***************************************************************************)
(* State.  db: the committed table.  tx: the importer's uncommitted rows.  *)
(* pc, columns, inserted: the position, frame columns and row count of the *)
(* import run.  last: the latest call, its inputs and its outcome.         *)
(***************************************************************************)
NoRow == [c \in TargetCols |-> Absent]

NoParams == [query_id |-> None]

Call(op, qid, outcome) ==
    [op |-> op, qid |-> qid, outcome |-> outcome, missing |-> {}, hdrs |-> <<>>,
     row |-> NoRow, p |-> NoParams, rep |-> FALSE, n |-> 0, prev |-> {}]

\* the application has run ensure_tables(): the table exists and is empty
Init ==
    /\ db = {}
    /\ tx = {}
    /\ pc = "idle"
    /\ columns = {}
    /\ inserted = 0
    /\ last = Call("init", None, "ok")

\* import_csv up to the loop: read the file, normalise the header, connect
import_begin(hdrs) ==
    /\ pc = "idle"
    /\ IF missing_required(hdrs) # {}
       THEN /\ last' = [Call("import_csv", None, "MissingColumns")
                            EXCEPT !.missing = missing_required(hdrs), !.hdrs = hdrs]
            /\ UNCHANGED <<db, tx, pc, columns, inserted>>
       ELSE /\ pc' = "rows"
            /\ columns' = frame_columns(hdrs)
            /\ inserted' = 0
            /\ tx' = {}
            /\ last' = [Call("import_csv", None, "ok") EXCEPT !.hdrs = hdrs]
            /\ UNCHANGED db

\* one pass of the loop: coerce the row and execute INSERT_SQL
import_row(row, uuid) ==
    /\ pc = "rows"
    /\ inserted < MaxRows
    /\ qid_missing(row) => fresh(uuid)
    /\ LET p == row_params(row, uuid)
       IN  IF not_null_violation(p)
           THEN /\ tx' = rollback(tx)
                /\ pc' = "idle"
                /\ columns' = {}
                /\ inserted' = 0
                /\ last' = [Call("import_row", p.query_id, "IntegrityError")
                                EXCEPT !.row = row, !.p = p, !.n = inserted]
                /\ UNCHANGED db
           ELSE /\ IF autocommit
                   THEN db' = commit(db, execute(db, tx, p)) /\ tx' = {}
                   ELSE db' = db /\ tx' = execute(db, tx, p)
                /\ inserted' = inserted + 1
                /\ last' = [Call("import_row", p.query_id, "ok")
                                EXCEPT !.row = row, !.p = p, !.n = inserted,
                                       !.rep = (last.op = "import_row" /\ last.p = p)]
                /\ UNCHANGED <<pc, columns>>

\* cur.execute raises at a row (the connection is lost): the run ends there
import_storage_error ==
    /\ pc = "rows"
    /\ inserted < MaxRows
    /\ tx' = rollback(tx)
    /\ pc' = "idle"
    /\ columns' = {}
    /\ inserted' = 0
    /\ last' = [Call("import_row", None, "StorageError") EXCEPT !.n = inserted]
    /\ UNCHANGED db

\* the file is exhausted: cnx.commit()
import_commit ==
    /\ pc = "rows"
    /\ db' = commit(db, tx)
    /\ tx' = {}
    /\ pc' = "idle"
    /\ columns' = {}
    /\ inserted' = 0
    /\ last' = [Call("import_commit", None, "ok") EXCEPT !.n = inserted]

submit_params(a, uuid, now) ==
    [query_id |-> IF a.query_id \in {None, Str(<<>>)}
                  THEN Str(Prefix(uuid, QidLen))
                  ELSE a.query_id,
     mail_id |-> a.mail,
     mobile_number |-> a.mobile,
     query_heading |-> a.heading,
     query_description |-> a.desc,
     status |-> Open,
     query_created_time |-> Dt(now),
     assigned_to |-> a.assigned_to]

submit_query(a, uuid, now) ==
    /\ a.query_id \in {None, Str(<<>>)} => fresh(uuid)
    /\ LET p == submit_params(a, uuid, now)
       IN  /\ ~locked(p.query_id)
           /\ IF not_null_violation(p)
              THEN /\ last' = [Call("submit_query", p.query_id, "IntegrityError")
                                   EXCEPT !.p = p]
                   /\ UNCHANGED db
              ELSE /\ db' = SUBMIT_SQL(db, p)
                   /\ last' = [Call("submit_query", p.query_id, "ok")
                                   EXCEPT !.p = p, !.prev = rows_of(db, p.query_id)]
    /\ UNCHANGED <<tx, pc, columns, inserted>>

\* the UPDATE matches no row when qid is not stored; nothing is raised
update_query_status_and_assign(qid, new_status, assigned_to, now) ==
    /\ ~locked(qid)
    /\ db' = UPDATE_SQL(db, qid, new_status, assigned_to, now)
    /\ last' = [Call("update_query_status_and_assign", qid, "ok")
                    EXCEPT !.p = [query_id |-> qid, status |-> new_status,
                                  assigned_to |-> assigned_to],
                           !.prev = rows_of(db, qid)]
    /\ UNCHANGED <<tx, pc, columns, inserted>>

Next ==
    \/ \E hdrs \in MainHeaders : import_begin(hdrs)
    \/ \E row \in MainRows(columns), uuid \in Uuids : import_row(row, uuid)
    \/ import_storage_error
    \/ import_commit
    \/ \E a \in SubmitArgs, uuid \in Uuids, now \in Times : submit_query(a, uuid, now)
    \/ \E qid \in UpdateQids, new_status \in StatusOptions,
          assigned_to \in SupportUsers, now \in Times :
            update_query_status_and_assign(qid, new_status, assigned_to, now)

Spec == Init /\ [][Next]_vars

\* one run of the importer on a file with any header line
NextHeaders == last.op = "init" /\ \E hdrs \in AllHeaders(Pads) : import_begin(hdrs)

SpecHeaders == Init /\ [][NextHeaders]_vars

WideDateTexts ==
    {<<>>, <<"2024-03-01">>, padded(MaxPad, <<"01-03-2024", SP, "10:00:00">>),
     <<"2024/03/01">>, <<"garbage">>}

WideRows(cols) ==
    {csv_row(cols, shape, MaxPad, st, cr, cl, qd) :
        shape \in TextShapes, st \in StatusTexts, cr \in {<<"2024-03-01", SP, "10:00:00">>},
        cl \in WideDateTexts, qd \in {padded(MaxPad, <<"q1">>)}}
        \cup {csv_row(cols, "word", 0, <<"open">>, <<"2024-03-01">>, <<>>, qd) : qd \in {<<>>, Pad(MaxPad)}}

\* one run of the importer on a file with any rows
NextRows ==
    \/ last.op = "init" /\ \E hdrs \in MainHeaders : import_begin(hdrs)
    \/ \E row \in WideRows(columns), uuid \in Uuids : import_row(row, uuid)
    \/ import_storage_error
    \/ import_commit

SpecRows == Init /\ [][NextRows]_vars

(***************************************************************************)
(* Properties.                                                             *)
(***************************************************************************)
Done == {Resolved, Closed}

closed_iff_done(r) == (r.query_closed_time # None) <=> (r.status \in Done)

updated == last.op = "update_query_status_and_assign"

submitted == last.op = "submit_query" /\ last.outcome = "ok"

row_executed == last.op = "import_row" /\ last.outcome = "ok"

\* C1: right after update_query_status_and_assign on a stored ticket, the ticket
\* carries the new status and its closed time is set exactly when that status is
\* Resolved or Closed, whatever the ticket held before.
C1_UpdateDerivesClosedTime ==
    updated =>
        \A r \in rows_of(db, last.qid) : r.status = last.p.status /\ closed_iff_done(r)

\* C1 witness: a ticket that carried a closed time was reopened and lost it.
C1_ReopenCleared ==
    /\ updated
    /\ last.p.status \in {Open, InProgress}
    /\ \E r \in last.prev : r.query_closed_time # None
    /\ \E r \in rows_of(db, last.qid) : r.query_closed_time = None

\* C2 as stated: an update naming a ticket that is not stored is reported to the
\* caller as NotFound.
C2_MissingIdReported == (updated /\ last.prev = {}) => last.outcome = "NotFound"

\* C2 amended: an update naming a ticket that is not stored returns normally and
\* leaves the stored tickets unchanged.
C2_MissingIdSilent ==
    [][(last'.op = "update_query_status_and_assign" /\ last'.prev = {})
            => (last'.outcome = "ok" /\ db' = db)]_vars

\* C2 witness: an update was applied to an identifier no stored row carries.
C2_MissingIdUpdated == updated /\ last.prev = {} /\ db # {}

\* C3: every stored ticket carries a closed time exactly when its status is
\* Resolved or Closed, after any sequence of imports, submissions and updates.
C3_ClosedTimeFollowsStatus == \A r \in db : closed_iff_done(r)

\* the headers that name target column c: its synonyms, with any padding
names_column(h, c) == \E k \in HEADER_KEYS : HEADER_MAP[k] = c /\ strip(h) = <<k>>

absent_required(hdrs) ==
    {c \in REQUIRED_TARGET_COLS : \A i \in 1..Len(hdrs) : ~names_column(hdrs[i], c)}

full_row(p, closed, assigned) ==
    [query_id |-> p.query_id,
     mail_id |-> p.mail_id,
     mobile_number |-> p.mobile_number,
     query_heading |-> p.query_heading,
     query_description |-> p.query_description,
     status |-> p.status,
     query_created_time |-> p.query_created_time,
     query_closed_time |-> closed,
     assigned_to |-> assigned]

\* C5: an upsert onto a stored identifier replaces every field of the stored row by
\* the new record's, assigned_to alone following the caller: the importer's
\* statement leaves it, the submission sets it.
C5_UpsertReplacesEveryField ==
    /\ (submitted /\ last.prev # {}) =>
            rows_of(db, last.qid) = {full_row(last.p, None, last.p.assigned_to)}
    /\ row_executed =>
            \A r \in rows_of(View(db, tx), last.qid) :
                r = full_row(last.p, last.p.query_closed_time, r.assigned_to)

\* the letter cases of a status value
case_variants(a) ==
    CASE a = Open -> {<<"open">>, <<"Open">>, <<"OPEN">>}
      [] a = Closed -> {<<"closed">>, <<"Closed">>, <<"CLOSED">>}
      [] a = Resolved -> {<<"resolved">>, <<"Resolved">>, <<"RESOLVED">>}
      [] a = InProgress ->
            {<<x, SP, y>> : x \in {"in", "In", "IN"}, y \in {"progress", "Progress", "PROGRESS"}}

expected_status(cell) ==
    IF cell.t # "str"
    THEN Open
    ELSE LET hit == {a \in StatusOptions : strip(cell.v) \in case_variants(a)}
         IN  IF hit = {} THEN Open ELSE CHOOSE a \in hit : TRUE

\* C6: every stored or pending ticket has one of the four statuses, and an imported
\* row's status is the canonical value its cell names in any letter case, Open when
\* the cell is missing, blank or unrecognised.
C6_StatusEnumerated ==
    /\ \A r \in db \cup tx : r.status \in {<<"Open">>, <<"In", " ", "Progress">>, <<"Resolved">>, <<"Closed">>}
    /\ row_executed =>
            \A r \in rows_of(View(db, tx), last.qid) : r.status = expected_status(last.row["status"])

\* C6 witness: a row whose status cell is " closed " was stored as Closed.
C6_LowerCaseStored ==
    /\ row_executed
    /\ last.row["status"] = Str(padded(MaxPad, <<"closed">>))
    /\ \E r \in tx : r.query_id = last.qid /\ r.status = Closed

\* C7: executing the importer's statement a second time with the same record
\* leaves the table as the first left it: one row for the identifier, equal to the
\* record.
C7_UpsertIdempotent ==
    [][(last'.op = "import_row" /\ last'.outcome = "ok" /\ last'.rep)
            => /\ View(db', tx') = View(db, tx)
               /\ Cardinality(rows_of(View(db', tx'), last'.qid)) = 1
               /\ \A r \in rows_of(View(db', tx'), last'.qid) :
                     r = full_row(last'.p, last'.p.query_closed_time, r.assigned_to)]_vars

\* C7 witness: the importer executed the same record twice in a row onto a ticket
\* that a support user had been assigned.
C7_Repeated ==
    /\ row_executed
    /\ last.rep
    /\ \E r \in tx : r.query_id = last.qid /\ r.assigned_to # None

\* C8: when a submission and an import run write the same identifier, a reader
\* sees one row for it, and once the submission is applied that row is the
\* submitted record: it mixes in no field of the other write.
C8_LastWriteWins ==
    /\ \A r \in db : \A q \in db : r.query_id = q.query_id => r = q
    /\ submitted => rows_of(db, last.qid) = {full_row(last.p, None, last.p.assigned_to)}

\* C9: the importer's rows are committed together, once, by the commit that follows
\* the last row; executing a row commits nothing, and a failure at a row ends the
\* run with none of its rows committed or pending.
C9_SingleCommit ==
    [][/\ last'.op \in {"import_csv", "import_row"} => db' = db
       /\ (last'.op = "import_row" /\ last'.outcome # "ok") => (tx' = {} /\ pc' = "idle")
       /\ last'.op = "import_commit" => (db' = View(db, tx) /\ tx' = {} /\ pc' = "idle")]_vars

\* C9 witness: a run failed at a row after another row had been executed.
C9_FailedMidRun ==
    /\ last.op = "import_row"
    /\ last.outcome \in {"IntegrityError", "StorageError"}
    /\ last.n >= 1
    /\ tx = {}

TextCols == {"mail_id", "mobile_number", "query_heading", "query_description"}

\* C10: the importer stores each plain text field trimmed, and stores no value
\* (NULL) when the cell is absent, empty or blank.
C10_BlankTextStoredAbsent ==
    row_executed =>
        \A r \in rows_of(View(db, tx), last.qid) : \A f \in TextCols :
            IF last.row[f].t # "str" \/ strip(last.row[f].v) = <<>>
            THEN r[f] = None
            ELSE r[f] = Str(strip(last.row[f].v))

====
